---- MODULE Spec2Model ----
(***************************************************************************)
(* A model of the chat room consumer of web_chat                           *)
(* (src/chat/room/consumers.py, class ChatConsumer).                       *)
(*                                                                         *)
(* One ChatConsumer instance serves one WebSocket connection.  The three   *)
(* class-level dictionaries connected_users, user_channels and             *)
(* message_buffer are shared by all instances of the process.  The channel *)
(* layer is modelled by its groups (group name -> channels) and by one     *)
(* FIFO queue per channel; a consumer handles one message at a time, so    *)
(* a queued channel-layer message is handled only between two handlers.    *)
(*                                                                         *)
(* Representation.  Texts are sequences of one-character strings, so that  *)
(* str.strip() is computed.  A datetime is a positive clock tick, and      *)
(* isoformat() of it is represented by the same tick: for datetimes of one *)
(* UTC offset the ISO-8601 strings compare as the datetimes do, and the    *)
(* only use the code makes of these strings is to compare them.  The empty *)
(* string is EmptyStr (below every timestamp) and None is NoneTs.  The     *)
(* clock advances by at most one tick per row created.                     *)
(***************************************************************************)
EXTENDS Naturals, Integers, Sequences, FiniteSets, TLC

(***************************************************************************)
(* Bounds of the model.                                                    *)
(***************************************************************************)
MaxReceive == 1        \* receive() calls handled, over all sessions (Spec)
BufferRun == 2         \* receive() calls handled in the buffer run (SpecBuffer)
ReceiveRun == 2        \* receive() calls handled in the payload run (SpecReceive)
TabsRun == 1           \* receive() calls handled in the tabs run (SpecTabs)
MaxStore == 3          \* ChatMessages of the room in a drawn store (SpecMerge)
MaxBuf == 2            \* entries of a drawn buffer snapshot (SpecMerge)
MaxLimit == 3          \* largest limit drawn (SpecMerge)
MaxTs == 2             \* largest timestamp drawn (SpecMerge)

(***************************************************************************)
(* Program constants.                                                      *)
(***************************************************************************)
BufferCap == 50        \* add_message_to_buffer: len(...) > 50, [-50:]
HistoryLimit == 50     \* get_combined_messages / get_room_messages limit=50
PrivateLimit == 50     \* get_private_messages limit=50
NoneTs == -1           \* date_added is None
EmptyStr == 0          \* '' as a sort key

(***************************************************************************)
(* The world the model is run in.                                          *)
(***************************************************************************)
Sessions == {"s1", "s2"}                \* connections; channel_name = session
Users == {"alice", "bob"}               \* usernames the store holds
Anonymous == "AnonymousUser"            \* scope["user"].is_anonymous
Rooms == {"general"}                    \* slugs the store holds
Slugs == Rooms \cup {"nowhere"}         \* slugs a URL may carry
ChatNames == {"alice", "ghost"}         \* 'username' of a chat payload
FromNames == {"alice", "bob", "ghost"}  \* 'username' of a private payload
TargetNames == {"alice", "ghost", ""}   \* 'to_username' of a private payload
Texts == { <<>>, <<" ">>, <<"h", "i">>, <<" ", "h", "i", " ">> }
Unset == "unset"                        \* attribute not assigned yet

\* The identity and the room slug a connection may be opened with
Scopes(s) ==
    CASE s = "s1" -> { << "alice", "general" >> }
      [] s = "s2" -> { << "alice", "general" >>, << "alice", "nowhere" >>,
                       << "bob", "general" >>, << Anonymous, "general" >> }

VARIABLES
    connected_users,   \* class dict: room slug -> set of usernames
    user_channels,     \* class dict: username -> channel name
    message_buffer,    \* class dict: room slug -> list of buffered entries
    db_messages,       \* store: Message rows in id order
    db_private,        \* store: PrivateMessage rows in id order
    groups,            \* channel layer: group name -> set of channels
    queue,             \* channel layer: channel -> messages not handled yet
    sent,              \* per session: frames sent to the client, in order
    st,                \* per session: Connecting, Joined, Rejected, Closed
    user,              \* per session: self.user, Unset before connect
    room_slug,         \* per session: self.room_slug
    room_group_name,   \* per session: self.room_group_name
    pc,                \* per session: idle, history inside connect, or saved
                       \* inside handle_chat_message
    saved,             \* per session: saved_message while pc = saved
    now,               \* the clock
    nrecv,             \* receive() calls handled so far
    hm                 \* History Merger run on drawn inputs (SpecMerge)

vars == << connected_users, user_channels, message_buffer, db_messages,
           db_private, groups, queue, sent, st, user, room_slug,
           room_group_name, pc, saved, now, nrecv, hm >>

sharedVars == << connected_users, user_channels, message_buffer >>
storeVars == << db_messages, db_private >>
sessionVars == << st, user, room_slug, room_group_name >>

(***************************************************************************)
(* Helpers: dictionaries, frames, text.                                    *)
(***************************************************************************)
EmptyDict == [k \in {} |-> {}]

DictSet(d, k, v) == [x \in (DOMAIN d) \cup {k} |-> IF x = k THEN v ELSE d[x]]

DictDel(d, k) == [x \in (DOMAIN d) \ {k} |-> d[x]]

Frame(type) ==
    [ type |-> type, activity |-> "", username |-> "", from_username |-> "",
      to_username |-> "", message |-> <<>>, message_id |-> 0,
      timestamp |-> EmptyStr, users |-> {}, count |-> 0, messages |-> <<>> ]

IsoFormat(t) == t

\* a list built by comprehension, as a tuple
AsList(f) == f \o << >>

RECURSIVE LStrip(_)
LStrip(t) == IF t # <<>> /\ Head(t) = " " THEN LStrip(Tail(t)) ELSE t

RECURSIVE RStrip(_)
RStrip(t) ==
    IF t # <<>> /\ t[Len(t)] = " " THEN RStrip(SubSeq(t, 1, Len(t) - 1)) ELSE t

Strip(t) == RStrip(LStrip(t))

\* seq[start:] of Python, for any integer start
PySliceFrom(seq, start) ==
    LET n == Len(seq)
        b == IF start < 0 THEN (IF n + start < 0 THEN 0 ELSE n + start)
             ELSE (IF start > n THEN n ELSE start)
    IN  SubSeq(seq, b + 1, n)

\* seq[:stop] of Python, for stop >= 0
PySliceTo(seq, stop) == SubSeq(seq, 1, IF stop > Len(seq) THEN Len(seq) ELSE stop)

RoomGroupName(slug) == "chat_" \o slug

GroupNames == { RoomGroupName(r) : r \in Slugs }

(***************************************************************************)
(* Persistence Service, as consumers.py uses it.                           *)
(***************************************************************************)
check_user_exists(username) == username \in Users

check_room_exists(slug) == slug \in Rooms

\* save_message: the Message row created; ids are assigned in creation order
NewMessage(db, username, slug, content, t) ==
    [ id |-> Len(db) + 1, room |-> slug, user |-> username,
      content |-> content, date_added |-> t ]

\* save_private_message: the PrivateMessage row created
NewPrivateMessage(db, from_username, to_username, content, t) ==
    [ id |-> Len(db) + 1, from_user |-> from_username, to_user |-> to_username,
      content |-> content, timestamp |-> t ]

\* filter(room=room): the rows of the room
RoomRows(db, slug) == LET InRoom(m) == m.room = slug IN SelectSeq(db, InRoom)

\* ORDER BY date_added: NULLs sort first or last, as the database decides
DbLess(a, b, nullsLast) ==
    IF a = NoneTs THEN (~nullsLast /\ b # NoneTs)
    ELSE IF b = NoneTs THEN nullsLast
    ELSE a < b

\* The orders ORDER BY date_added may return: rows of equal date come in any
\* order, here the order tb gives them
DateOrderings(rows) ==
    LET n == Len(rows)
        tied == { i \in 1..n :
                    \E j \in 1..n : j # i /\ rows[j].date_added = rows[i].date_added }
        TieBreaks == { tb \in [ tied -> 1..Cardinality(tied) ] :
                         \A a, b \in tied : a # b => tb[a] # tb[b] }
        Before(a, b, tb, nullsLast) ==
            \/ DbLess(rows[a].date_added, rows[b].date_added, nullsLast)
            \/ /\ rows[a].date_added = rows[b].date_added
               /\ a # b
               /\ tb[a] < tb[b]
        OrderBy(tb, nullsLast) ==
            LET rank == AsList([ i \in 1..n |->
                    Cardinality({ j \in 1..n : Before(j, i, tb, nullsLast) }) + 1 ])
                at == AsList([ k \in 1..n |-> CHOOSE i \in 1..n : rank[i] = k ])
            IN  [ k \in 1..n |-> rows[at[k]] ]
    IN  { OrderBy(tb, nullsLast) : tb \in TieBreaks, nullsLast \in BOOLEAN }

MessageDict(msg) ==
    [ id |-> msg.id, message |-> msg.content, username |-> msg.user,
      date_added |-> IF msg.date_added # NoneTs
                     THEN IsoFormat(msg.date_added) ELSE NoneTs ]

\* get_room_messages: the lists it may return (one per order of equal dates)
get_room_messages(db, slug, limit) ==
    { PySliceTo([i \in 1..Len(p) |-> MessageDict(p[i])], limit) :
        p \in DateOrderings(RoomRows(db, slug)) }

(***************************************************************************)
(* Room Registry and Connection Directory.                                 *)
(***************************************************************************)
add_user_to_room(cu, slug, username) ==
    DictSet(cu, slug, (IF slug \in DOMAIN cu THEN cu[slug] ELSE {}) \cup {username})

\* mutant: the room's entry is kept when its last member leaves
remove_user_keep_empty(cu, slug, username) ==
    IF slug \in DOMAIN cu /\ username \in cu[slug]
    THEN DictSet(cu, slug, cu[slug] \ {username})
    ELSE cu

remove_user_from_room(cu, slug, username) ==
    IF slug \in DOMAIN cu /\ username \in cu[slug]
    THEN IF cu[slug] \ {username} = {}
         THEN DictDel(cu, slug)
         ELSE DictSet(cu, slug, cu[slug] \ {username})
    ELSE cu

\* channel_layer.group_send: the message is queued on every channel of the group
group_send(q, grp, group, msg) ==
    [ c \in DOMAIN q |-> IF c \in grp[group] THEN Append(q[c], msg) ELSE q[c] ]

\* channel_layer.send: the message is queued on one channel
channel_send(q, channel, msg) == [ q EXCEPT ![channel] = Append(@, msg) ]

\* send_online_users: a snapshot is broadcast only if the room has an entry
send_online_users(q, grp, cu, slug, group) ==
    IF slug \in DOMAIN cu
    THEN group_send(q, grp, group,
             [ Frame("online_users") EXCEPT !.users = cu[slug],
                                            !.count = Cardinality(cu[slug]) ])
    ELSE q

(***************************************************************************)
(* Message Buffer.                                                         *)
(***************************************************************************)
BufferOf(mb, slug) == IF slug \in DOMAIN mb THEN mb[slug] ELSE <<>>

BufferEntry(message_obj, t) ==
    [ id |-> message_obj.id, message |-> message_obj.content,
      username |-> message_obj.user,
      timestamp |-> IF message_obj.date_added # NoneTs
                    THEN IsoFormat(message_obj.date_added) ELSE IsoFormat(t) ]

\* mutant: the list is cut to its first 50 entries, [:50]
add_message_to_buffer_keep_first(mb, slug, message_obj, t) ==
    LET appended == Append(BufferOf(mb, slug), BufferEntry(message_obj, t))
    IN  DictSet(mb, slug, IF Len(appended) > BufferCap
                          THEN PySliceTo(appended, BufferCap)
                          ELSE appended)

add_message_to_buffer(mb, slug, message_obj, t) ==
    LET appended == Append(BufferOf(mb, slug), BufferEntry(message_obj, t))
    IN  DictSet(mb, slug, IF Len(appended) > BufferCap
                          THEN PySliceFrom(appended, 0 - BufferCap)
                          ELSE appended)

(***************************************************************************)
(* History Merger.                                                         *)
(***************************************************************************)
Reversed(seq) == [ i \in 1..Len(seq) |-> seq[Len(seq) + 1 - i] ]

SeenIds(acc) == { acc[i].id : i \in 1..Len(acc) }

\* mutant: seen_ids is not consulted
AddAll(acc, msgs) == acc \o msgs

\* for msg in msgs: if msg['id'] not in seen_ids: append.  The ids of acc are
\* distinct, so a message is kept iff no message before it carries its id.
AddUnseen(acc, msgs) ==
    LET all == acc \o msgs
        n == Len(all)
        ids == AsList([ i \in 1..n |-> all[i].id ])
        unseen == AsList([ i \in 1..n |->
                     \A j \in 1..(i - 1) : ids[j] # ids[i] ])
        upTo == AsList([ i \in 1..n |->
                     Cardinality({ j \in 1..i : unseen[j] }) ])
        kept == IF n = 0 THEN 0 ELSE upTo[n]
        nth == AsList([ k \in 1..kept |->
                   CHOOSE i \in 1..n : unseen[i] /\ upTo[i] = k ])
    IN  [ k \in 1..kept |-> all[nth[k]] ]

BufferDict(e) ==
    [ id |-> e.id, message |-> e.message, username |-> e.username,
      date_added |-> e.timestamp ]

\* key=lambda x: x['date_added'] if x['date_added'] else ''
SortKey(x) == IF x.date_added = NoneTs \/ x.date_added = EmptyStr
              THEN EmptyStr ELSE x.date_added

\* list.sort and sorted are stable: an element comes after those of smaller
\* key and after those of equal key that stood before it
StableSort(seq, keys) ==
    LET n == Len(seq)
        rank == AsList([ i \in 1..n |->
                    Cardinality({ j \in 1..n :
                        \/ keys[j] < keys[i]
                        \/ keys[j] = keys[i] /\ j < i }) + 1 ])
        at == AsList([ k \in 1..n |-> CHOOSE i \in 1..n : rank[i] = k ])
    IN  [ k \in 1..n |-> seq[at[k]] ]

SortByDate(seq) ==
    StableSort(seq, AsList([ i \in 1..Len(seq) |-> SortKey(seq[i]) ]))

\* mutant: the combined list is cut without having been sorted
get_combined_messages_unsorted(buffer_messages, db_page, limit) ==
    LET fromBuffer == AddUnseen(<<>>,
            [ i \in 1..Len(buffer_messages) |->
                 BufferDict(Reversed(buffer_messages)[i]) ])
        combined == AddUnseen(fromBuffer, db_page)
    IN  PySliceFrom(combined, 0 - limit)

\* get_combined_messages, given the page get_room_messages returned
get_combined_messages(buffer_messages, db_page, limit) ==
    LET fromBuffer == AddUnseen(<<>>,
            [ i \in 1..Len(buffer_messages) |->
                 BufferDict(Reversed(buffer_messages)[i]) ])
        combined == AddUnseen(fromBuffer, db_page)
    IN  PySliceFrom(SortByDate(combined), 0 - limit)

(***************************************************************************)
(* Private history.                                                        *)
(***************************************************************************)
PrivateKey(m) == m.timestamp

SortByTimestamp(seq) ==
    StableSort(seq, AsList([ i \in 1..Len(seq) |-> PrivateKey(seq[i]) ]))

PrivateDict(msg, username) ==
    [ id |-> msg.id, message |-> msg.content, from_username |-> msg.from_user,
      to_username |-> msg.to_user, timestamp |-> IsoFormat(msg.timestamp),
      direction |-> IF msg.from_user = username THEN "sent" ELSE "received" ]

\* get_private_messages: sent rows chained with received rows, sorted, cut
get_private_messages(db, username, limit) ==
    LET IsSent(m) == m.from_user = username
        IsReceived(m) == m.to_user = username
        all_messages == SortByTimestamp(SelectSeq(db, IsSent)
                                        \o SelectSeq(db, IsReceived))
        tail == PySliceFrom(all_messages, 0 - limit)
    IN  [ i \in 1..Len(tail) |-> PrivateDict(tail[i], username) ]

(***************************************************************************)
(* Payloads a client may send.                                             *)
(***************************************************************************)
Malformed == [ parsed |-> FALSE, type |-> "", message |-> <<>>, username |-> "",
               to_username |-> "" ]

ChatPayloads ==
    { [ parsed |-> TRUE, type |-> "chat_message", message |-> m, username |-> u,
        to_username |-> "" ] : m \in Texts, u \in ChatNames }

PrivatePayloads ==
    { [ parsed |-> TRUE, type |-> "private_message", message |-> m,
        username |-> u, to_username |-> t ] :
        m \in Texts, u \in FromNames, t \in TargetNames }

Payloads == { Malformed } \cup ChatPayloads \cup PrivatePayloads

NoMessage == [ id |-> 0, room |-> "", user |-> "", content |-> <<>>,
               date_added |-> NoneTs ]

HmIdle == [ buffer |-> <<>>, store |-> <<>>, limit |-> 0, page |-> <<>>,
            result |-> <<>>, done |-> FALSE ]

(***************************************************************************)
(* Initial state: the process has started, no connection was opened yet.   *)
(***************************************************************************)
InitSessions ==
    /\ connected_users = EmptyDict
    /\ user_channels = EmptyDict
    /\ message_buffer = EmptyDict
    /\ db_messages = <<>>
    /\ db_private = <<>>
    /\ groups = [ g \in GroupNames |-> {} ]
    /\ queue = [ s \in Sessions |-> <<>> ]
    /\ sent = [ s \in Sessions |-> <<>> ]
    /\ st = [ s \in Sessions |-> "Connecting" ]
    /\ user = [ s \in Sessions |-> Unset ]
    /\ room_slug = [ s \in Sessions |-> Unset ]
    /\ room_group_name = [ s \in Sessions |-> Unset ]
    /\ pc = [ s \in Sessions |-> "idle" ]
    /\ saved = [ s \in Sessions |-> NoMessage ]
    /\ now = 1
    /\ nrecv = 0

Init == InitSessions /\ hm = HmIdle

(***************************************************************************)
(* connect                                                                 *)
(***************************************************************************)
HistoryFrame(messages) == [ Frame("history") EXCEPT !.messages = messages ]

PrivateHistoryFrame(messages) ==
    [ Frame("private_history") EXCEPT !.messages = messages ]

UserJoinedEvent(username, t) ==
    [ Frame("user_joined") EXCEPT !.username = username,
                                  !.timestamp = IsoFormat(t) ]

UserLeftEvent(username, t) ==
    [ Frame("user_left") EXCEPT !.username = username,
                                !.timestamp = IsoFormat(t) ]

\* mutant: user_joined is broadcast before the online_users snapshot
ConnectAcceptedJoinedFirst(s, u, slug) ==
    LET group == RoomGroupName(slug)
        grp == [ groups EXCEPT ![group] = @ \cup {s} ]
        cu == add_user_to_room(connected_users, slug, u)
        q1 == group_send(queue, grp, group, UserJoinedEvent(u, now))
        q2 == send_online_users(q1, grp, cu, slug, group)
    IN  /\ groups' = grp
        /\ user_channels' = DictSet(user_channels, u, s)
        /\ connected_users' = cu
        /\ queue' = q2
        /\ st' = [ st EXCEPT ![s] = "Joined" ]
        /\ pc' = [ pc EXCEPT ![s] = "history" ]
        /\ UNCHANGED sent

\* connect, lines 37-63: the caller is authenticated and the room exists;
\* the handler goes on to read the store for the histories
ConnectAccepted(s, u, slug) ==
    LET group == RoomGroupName(slug)
        grp == [ groups EXCEPT ![group] = @ \cup {s} ]
        cu == add_user_to_room(connected_users, slug, u)
        q1 == send_online_users(queue, grp, cu, slug, group)
        q2 == group_send(q1, grp, group, UserJoinedEvent(u, now))
    IN  /\ groups' = grp
        /\ user_channels' = DictSet(user_channels, u, s)
        /\ connected_users' = cu
        /\ queue' = q2
        /\ st' = [ st EXCEPT ![s] = "Joined" ]
        /\ pc' = [ pc EXCEPT ![s] = "history" ]
        /\ UNCHANGED sent

\* connect, lines 25-35: close() without accept()
ConnectRejected(s) ==
    /\ st' = [ st EXCEPT ![s] = "Rejected" ]
    /\ UNCHANGED << connected_users, user_channels, groups, queue, sent, pc >>

\* mutant: the is_anonymous check is missing
ConnectNoAuthCheck(s, u, slug) ==
    /\ st[s] = "Connecting"
    /\ user' = [ user EXCEPT ![s] = u ]
    /\ room_slug' = [ room_slug EXCEPT ![s] = slug ]
    /\ room_group_name' = [ room_group_name EXCEPT ![s] = RoomGroupName(slug) ]
    /\ IF ~check_room_exists(slug)
       THEN ConnectRejected(s)
       ELSE ConnectAccepted(s, u, slug)
    /\ UNCHANGED << message_buffer, storeVars, saved, now, nrecv, hm >>

Connect(s, u, slug) ==
    /\ st[s] = "Connecting"
    /\ user' = [ user EXCEPT ![s] = u ]
    /\ room_slug' = [ room_slug EXCEPT ![s] = slug ]
    /\ room_group_name' = [ room_group_name EXCEPT ![s] = RoomGroupName(slug) ]
    /\ IF u = Anonymous \/ ~check_room_exists(slug)
       THEN ConnectRejected(s)
       ELSE ConnectAccepted(s, u, slug)
    /\ UNCHANGED << message_buffer, storeVars, saved, now, nrecv, hm >>

\* connect, lines 65-69: send_history, then send_private_history
ConnectHistory(s) ==
    /\ st[s] = "Joined"
    /\ pc[s] = "history"
    /\ \E page \in get_room_messages(db_messages, room_slug[s], HistoryLimit) :
         sent' = [ sent EXCEPT ![s] =
             @ \o << HistoryFrame(get_combined_messages(
                         BufferOf(message_buffer, room_slug[s]), page,
                         HistoryLimit)),
                     PrivateHistoryFrame(get_private_messages(
                         db_private, user[s], PrivateLimit)) >> ]
    /\ pc' = [ pc EXCEPT ![s] = "idle" ]
    /\ UNCHANGED << sharedVars, storeVars, groups, queue, sessionVars, saved,
                    now, nrecv, hm >>

(***************************************************************************)
(* disconnect                                                              *)
(***************************************************************************)
\* mutant: group_discard is missing
DisconnectCleanupKeepsGroup(s) ==
    LET cu == remove_user_from_room(connected_users, room_slug[s], user[s])
        q1 == send_online_users(queue, groups, cu, room_slug[s],
                                room_group_name[s])
        q2 == group_send(q1, groups, room_group_name[s],
                         UserLeftEvent(user[s], now))
    IN  /\ connected_users' = cu
        /\ user_channels' = IF user[s] \in DOMAIN user_channels
                            THEN DictDel(user_channels, user[s])
                            ELSE user_channels
        /\ queue' = q2
        /\ groups' = groups

\* disconnect, lines 73-96
DisconnectCleanup(s) ==
    LET cu == remove_user_from_room(connected_users, room_slug[s], user[s])
        q1 == send_online_users(queue, groups, cu, room_slug[s],
                                room_group_name[s])
        q2 == group_send(q1, groups, room_group_name[s],
                         UserLeftEvent(user[s], now))
    IN  /\ connected_users' = cu
        /\ user_channels' = IF user[s] \in DOMAIN user_channels
                            THEN DictDel(user_channels, user[s])
                            ELSE user_channels
        /\ queue' = q2
        /\ groups' = [ groups EXCEPT ![room_group_name[s]] = @ \ {s} ]

\* disconnect runs for a connection the client closed and for one connect closed
Disconnect(s) ==
    /\ st[s] \in { "Joined", "Rejected" }
    /\ pc[s] = "idle"
    /\ IF room_group_name[s] # Unset /\ user[s] # Anonymous
       THEN DisconnectCleanup(s)
       ELSE UNCHANGED << connected_users, user_channels, queue, groups >>
    /\ st' = [ st EXCEPT ![s] = "Closed" ]
    /\ UNCHANGED << message_buffer, storeVars, sent, user, room_slug,
                    room_group_name, pc, saved, now, nrecv, hm >>

(***************************************************************************)
(* receive                                                                 *)
(***************************************************************************)
ErrorFrame(text) == [ Frame("error") EXCEPT !.message = << text >> ]

Send(s, frame) == sent' = [ sent EXCEPT ![s] = Append(@, frame) ]

\* mutant: a message whose save failed is handed on as if it had been saved
handle_chat_message_unsaved(s, p) ==
    LET message == Strip(p.message)
        username == p.username
    IN  IF message = <<>>
        THEN UNCHANGED << sent, db_messages, pc, saved, now >>
        ELSE IF ~check_user_exists(username)
        THEN /\ Send(s, ErrorFrame("user not found"))
             /\ UNCHANGED << db_messages, pc, saved, now >>
        ELSE \E ok \in BOOLEAN, t \in { now, now + 1 } :
               LET row == NewMessage(db_messages, username, room_slug[s],
                                     message, t)
               IN  /\ db_messages' = IF ok THEN Append(db_messages, row)
                                     ELSE db_messages
                   /\ pc' = [ pc EXCEPT ![s] = "saved" ]
                   /\ saved' = [ saved EXCEPT ![s] = row ]
                   /\ now' = t
                   /\ UNCHANGED sent

\* handle_chat_message, lines 115-134: up to the return of save_message
\* mutant: the declared sender is not looked up
handle_chat_message_unchecked(s, p) ==
    LET message == Strip(p.message)
        username == p.username
    IN  IF message = <<>>
        THEN UNCHANGED << sent, db_messages, pc, saved, now >>
        ELSE \E ok \in BOOLEAN, t \in { now, now + 1 } :
               /\ IF ok
                  THEN LET row == NewMessage(db_messages, username,
                                             room_slug[s], message, t)
                       IN  /\ db_messages' = Append(db_messages, row)
                           /\ pc' = [ pc EXCEPT ![s] = "saved" ]
                           /\ saved' = [ saved EXCEPT ![s] = row ]
                           /\ now' = t
                           /\ UNCHANGED sent
                  ELSE UNCHANGED << sent, db_messages, pc, saved, now >>

\* mutant: a failed save is reported to the sender
handle_chat_message_reporting(s, p) ==
    LET message == Strip(p.message)
        username == p.username
    IN  IF message = <<>>
        THEN UNCHANGED << sent, db_messages, pc, saved, now >>
        ELSE IF ~check_user_exists(username)
        THEN /\ Send(s, ErrorFrame("user not found"))
             /\ UNCHANGED << db_messages, pc, saved, now >>
        ELSE \E ok \in BOOLEAN, t \in { now, now + 1 } :
               /\ IF ok
                  THEN LET row == NewMessage(db_messages, username,
                                             room_slug[s], message, t)
                       IN  /\ db_messages' = Append(db_messages, row)
                           /\ pc' = [ pc EXCEPT ![s] = "saved" ]
                           /\ saved' = [ saved EXCEPT ![s] = row ]
                           /\ now' = t
                           /\ UNCHANGED sent
                  ELSE /\ Send(s, ErrorFrame("failed to send"))
                       /\ UNCHANGED << db_messages, pc, saved, now >>

handle_chat_message(s, p) ==
    LET message == Strip(p.message)
        username == p.username
    IN  IF message = <<>>
        THEN UNCHANGED << sent, db_messages, pc, saved, now >>
        ELSE IF ~check_user_exists(username)
        THEN /\ Send(s, ErrorFrame("user not found"))
             /\ UNCHANGED << db_messages, pc, saved, now >>
        ELSE \E ok \in BOOLEAN, t \in { now, now + 1 } :
               /\ IF ok
                  THEN LET row == NewMessage(db_messages, username,
                                             room_slug[s], message, t)
                       IN  /\ db_messages' = Append(db_messages, row)
                           /\ pc' = [ pc EXCEPT ![s] = "saved" ]
                           /\ saved' = [ saved EXCEPT ![s] = row ]
                           /\ now' = t
                           /\ UNCHANGED sent
                  ELSE UNCHANGED << sent, db_messages, pc, saved, now >>

ChatMessageEvent(message_obj, t) ==
    [ Frame("chat_message") EXCEPT
        !.message = message_obj.content,
        !.username = message_obj.user,
        !.message_id = message_obj.id,
        !.timestamp = IF message_obj.date_added # NoneTs
                      THEN IsoFormat(message_obj.date_added) ELSE IsoFormat(t) ]

\* mutant: the event goes to the other members of the group only
ChatAfterSaveOthersOnly(s) ==
    /\ st[s] = "Joined"
    /\ pc[s] = "saved"
    /\ message_buffer' = add_message_to_buffer(message_buffer, room_slug[s],
                                               saved[s], now)
    /\ queue' = group_send(queue,
                           [ groups EXCEPT ![room_group_name[s]] = @ \ {s} ],
                           room_group_name[s],
                           ChatMessageEvent(saved[s], now))
    /\ pc' = [ pc EXCEPT ![s] = "idle" ]
    /\ saved' = [ saved EXCEPT ![s] = NoMessage ]
    /\ UNCHANGED << connected_users, user_channels, storeVars, groups, sent,
                    sessionVars, now, nrecv, hm >>

\* handle_chat_message, lines 136-150: save_message returned a message
ChatAfterSave(s) ==
    /\ st[s] = "Joined"
    /\ pc[s] = "saved"
    /\ message_buffer' = add_message_to_buffer(message_buffer, room_slug[s],
                                               saved[s], now)
    /\ queue' = group_send(queue, groups, room_group_name[s],
                           ChatMessageEvent(saved[s], now))
    /\ pc' = [ pc EXCEPT ![s] = "idle" ]
    /\ saved' = [ saved EXCEPT ![s] = NoMessage ]
    /\ UNCHANGED << connected_users, user_channels, storeVars, groups, sent,
                    sessionVars, now, nrecv, hm >>

PrivateSentFrame(message, to_username, row) ==
    [ Frame("private_message_sent") EXCEPT
        !.message = message, !.to_username = to_username,
        !.timestamp = IsoFormat(row.timestamp), !.message_id = row.id ]

PrivateMessageEvent(message, from_username, row) ==
    [ Frame("private_message") EXCEPT
        !.message = message, !.from_username = from_username,
        !.timestamp = IsoFormat(row.timestamp), !.message_id = row.id ]

\* mutant: a failed save is confirmed to the sender like a success
handle_private_message_confirming(s, p) ==
    LET message == Strip(p.message)
        to_username == p.to_username
        from_username == p.username
    IN  IF message = <<>> \/ to_username = ""
        THEN UNCHANGED << sent, queue, db_private, now >>
        ELSE IF ~check_user_exists(from_username) \/ ~check_user_exists(to_username)
        THEN /\ Send(s, ErrorFrame("user not found"))
             /\ UNCHANGED << queue, db_private, now >>
        ELSE \E ok \in BOOLEAN, t \in { now, now + 1 } :
               LET row == NewPrivateMessage(db_private, from_username,
                                            to_username, message, t)
               IN  /\ db_private' = IF ok THEN Append(db_private, row)
                                    ELSE db_private
                   /\ now' = IF ok THEN t ELSE now
                   /\ Send(s, PrivateSentFrame(message, to_username, row))
                   /\ queue' = queue

\* mutant: an empty text or target is answered with an error
handle_private_message_strict(s, p) ==
    LET message == Strip(p.message)
        to_username == p.to_username
        from_username == p.username
    IN  IF message = <<>> \/ to_username = ""
        THEN /\ Send(s, ErrorFrame("user not found"))
             /\ UNCHANGED << queue, db_private, now >>
        ELSE IF ~check_user_exists(from_username) \/ ~check_user_exists(to_username)
        THEN /\ Send(s, ErrorFrame("user not found"))
             /\ UNCHANGED << queue, db_private, now >>
        ELSE \E ok \in BOOLEAN, t \in { now, now + 1 } :
               /\ IF ok
                  THEN LET row == NewPrivateMessage(db_private, from_username,
                                                    to_username, message, t)
                       IN  /\ db_private' = Append(db_private, row)
                           /\ now' = t
                           /\ Send(s, PrivateSentFrame(message, to_username, row))
                           /\ queue' =
                                IF to_username \in DOMAIN user_channels
                                THEN channel_send(queue,
                                         user_channels[to_username],
                                         PrivateMessageEvent(message,
                                                             from_username, row))
                                ELSE queue
                  ELSE /\ Send(s, ErrorFrame("failed to send"))
                       /\ UNCHANGED << queue, db_private, now >>

\* handle_private_message, lines 154-211
handle_private_message(s, p) ==
    LET message == Strip(p.message)
        to_username == p.to_username
        from_username == p.username
    IN  IF message = <<>> \/ to_username = ""
        THEN UNCHANGED << sent, queue, db_private, now >>
        ELSE IF ~check_user_exists(from_username) \/ ~check_user_exists(to_username)
        THEN /\ Send(s, ErrorFrame("user not found"))
             /\ UNCHANGED << queue, db_private, now >>
        ELSE \E ok \in BOOLEAN, t \in { now, now + 1 } :
               /\ IF ok
                  THEN LET row == NewPrivateMessage(db_private, from_username,
                                                    to_username, message, t)
                       IN  /\ db_private' = Append(db_private, row)
                           /\ now' = t
                           /\ Send(s, PrivateSentFrame(message, to_username, row))
                           /\ queue' =
                                IF to_username \in DOMAIN user_channels
                                THEN channel_send(queue,
                                         user_channels[to_username],
                                         PrivateMessageEvent(message,
                                                             from_username, row))
                                ELSE queue
                  ELSE /\ Send(s, ErrorFrame("failed to send"))
                       /\ UNCHANGED << queue, db_private, now >>

\* receive, lines 100-111; at most bound calls are handled in a run
ReceiveUpTo(s, p, bound) ==
    /\ st[s] = "Joined"
    /\ pc[s] = "idle"
    /\ nrecv < bound
    /\ nrecv' = nrecv + 1
    /\ \/ /\ ~p.parsed
          /\ UNCHANGED << sent, queue, storeVars, pc, saved, now >>
       \/ /\ p.parsed /\ p.type = "private_message"
          /\ handle_private_message(s, p)
          /\ UNCHANGED << db_messages, pc, saved >>
       \/ /\ p.parsed /\ p.type # "private_message"
          /\ handle_chat_message(s, p)
          /\ UNCHANGED << queue, db_private >>
    /\ UNCHANGED << sharedVars, groups, sessionVars, hm >>

(***************************************************************************)
(* Handlers of channel-layer messages, lines 215-265.                      *)
(***************************************************************************)
Handle(event) ==
    CASE event.type = "chat_message" ->
           [ Frame("new_message") EXCEPT
               !.message = event.message, !.username = event.username,
               !.message_id = event.message_id, !.timestamp = event.timestamp ]
      [] event.type = "private_message" ->
           [ Frame("private_message") EXCEPT
               !.message = event.message,
               !.from_username = event.from_username,
               !.timestamp = event.timestamp, !.message_id = event.message_id ]
      [] event.type = "user_joined" ->
           [ Frame("user_activity") EXCEPT
               !.activity = "joined", !.username = event.username,
               !.timestamp = event.timestamp,
               !.message = << event.username, " joined" >> ]
      [] event.type = "user_left" ->
           [ Frame("user_activity") EXCEPT
               !.activity = "left", !.username = event.username,
               !.timestamp = event.timestamp,
               !.message = << event.username, " left" >> ]
      [] event.type = "online_users" ->
           [ Frame("online_users") EXCEPT
               !.users = event.users, !.count = event.count ]

\* the consumer takes the next message of its channel and runs its handler
Deliver(s) ==
    /\ st[s] = "Joined"
    /\ pc[s] = "idle"
    /\ queue[s] # <<>>
    /\ Send(s, Handle(Head(queue[s])))
    /\ queue' = [ queue EXCEPT ![s] = Tail(@) ]
    /\ UNCHANGED << sharedVars, storeVars, groups, sessionVars, pc, saved,
                    now, nrecv, hm >>

Receive(s, p) == ReceiveUpTo(s, p, MaxReceive)

\* some connect stands between its broadcasts and its histories
ConnectRunning == \E o \in Sessions : pc[o] = "history"

\* connect is explored as one run, from its broadcasts to its histories: no
\* other handler is started while it reads the store (NextChat starts them)
Next ==
    \E s \in Sessions :
        \/ ConnectHistory(s)
        \/ /\ ~ConnectRunning
           /\ \/ \E scope \in Scopes(s) : Connect(s, scope[1], scope[2])
              \/ Disconnect(s)
              \/ \E p \in Payloads : Receive(s, p)
              \/ ChatAfterSave(s)
              \/ Deliver(s)

Spec == Init /\ [][Next]_vars

(***************************************************************************)
(* The History Merger on drawn inputs: get_combined_messages(room, limit)  *)
(* for a store, a buffer snapshot of rows of that store and a limit >= 1   *)
(* (the code calls it with the default 50 only).                           *)
(***************************************************************************)
MergeRoom == "general"

DateChoices == { NoneTs } \cup (1..MaxTs)

\* stores of up to MaxStore rows of the room, of any dates
StoreDraws ==
    UNION { { [ i \in 1..n |->
                  [ id |-> i, room |-> MergeRoom, user |-> "alice",
                    content |-> << "h" >>, date_added |-> d[i] ] ] :
              d \in [ 1..n -> DateChoices ] } : n \in 0..MaxStore }

\* buffer snapshots: up to MaxBuf distinct rows of the store, in any order,
\* each as add_message_to_buffer stored it at some time t
BufferDraws(store) ==
    UNION { { [ i \in 1..k |-> BufferEntry(store[f[i]], g[i]) ] :
              f \in { h \in [ 1..k -> 1..Len(store) ] :
                        \A i, j \in 1..k : i # j => h[i] # h[j] },
              g \in [ 1..k -> 1..MaxTs ] } :
            k \in 0..(IF MaxBuf < Len(store) THEN MaxBuf ELSE Len(store)) }

InitMerge ==
    /\ InitSessions
    /\ \E store \in StoreDraws :
         \E buffer \in BufferDraws(store), limit \in 1..MaxLimit :
            hm = [ HmIdle EXCEPT !.store = store, !.buffer = buffer,
                                 !.limit = limit ]

\* get_combined_messages, lines 441-471
MergeStep ==
    /\ ~hm.done
    /\ \E page \in get_room_messages(hm.store, MergeRoom, hm.limit) :
         hm' = [ hm EXCEPT !.page = page, !.done = TRUE,
                   !.result = get_combined_messages(hm.buffer, page, hm.limit) ]
    /\ UNCHANGED << sharedVars, storeVars, groups, queue, sent, sessionVars,
                    pc, saved, now, nrecv >>

NextMerge == MergeStep

SpecMerge == InitMerge /\ [][NextMerge]_vars

(***************************************************************************)
(* The buffer at its cap: the process has served BufferCap - 1 chat        *)
(* messages of room general, sent by connections that are closed by now.   *)
(***************************************************************************)
Prefill == BufferCap - 1

PrefillRows ==
    [ i \in 1..Prefill |->
        [ id |-> i, room |-> "general", user |-> "alice",
          content |-> << "h", "i" >>, date_added |-> i ] ]

InitBuffer ==
    /\ connected_users = EmptyDict
    /\ user_channels = EmptyDict
    /\ message_buffer =
         DictSet(EmptyDict, "general",
                 [ i \in 1..Prefill |-> BufferEntry(PrefillRows[i], i) ])
    /\ db_messages = PrefillRows
    /\ db_private = <<>>
    /\ groups = [ g \in GroupNames |-> {} ]
    /\ queue = [ s \in Sessions |-> <<>> ]
    /\ sent = [ s \in Sessions |-> <<>> ]
    /\ st = [ s \in Sessions |-> "Connecting" ]
    /\ user = [ s \in Sessions |-> Unset ]
    /\ room_slug = [ s \in Sessions |-> Unset ]
    /\ room_group_name = [ s \in Sessions |-> Unset ]
    /\ pc = [ s \in Sessions |-> "idle" ]
    /\ saved = [ s \in Sessions |-> NoMessage ]
    /\ now = Prefill
    /\ nrecv = 0
    /\ hm = HmIdle

\* the identity a connection of the chat runs is opened with
Member(s) == IF s = "s1" THEN "alice" ELSE "bob"

BufferPayload == [ parsed |-> TRUE, type |-> "chat_message",
                   message |-> << "h", "i" >>, username |-> "alice",
                   to_username |-> "" ]

NextBuffer ==
    \E s \in Sessions :
        \/ ConnectHistory(s)
        \/ /\ ~ConnectRunning
           /\ \/ Connect(s, Member(s), "general")
              \/ Disconnect(s)
              \/ ReceiveUpTo(s, BufferPayload, BufferRun)
              \/ ChatAfterSave(s)
              \/ Deliver(s)

SpecBuffer == InitBuffer /\ [][NextBuffer]_vars

(***************************************************************************)
(* Payload runs: alice and bob in one room; bob's client sends payloads    *)
(* that the handlers return from at once, and private messages, several in *)
(* a row.                                                                  *)
(***************************************************************************)
\* the payloads of the run: one that does not parse, chat messages without
\* text, and private messages bob's client sends under his name or under a
\* name that does not exist
ReceivePayloads ==
    { p \in Payloads :
        \/ ~p.parsed
        \/ p.type = "chat_message" /\ Strip(p.message) = << >>
        \/ /\ p.type = "private_message"
           /\ p.message # << "h", "i" >>
           /\ p.username \in { "bob", "ghost" } }

\* json.loads fails (line 102), `not message` (lines 118, 160) or
\* `not to_username` (line 160)
SilentPayloads ==
    { p \in ReceivePayloads :
        \/ ~p.parsed
        \/ Strip(p.message) = << >>
        \/ p.type = "private_message" /\ p.to_username = "" }

\* private messages that pass the check of line 160
AddressedPayloads ==
    { p \in ReceivePayloads \ SilentPayloads : p.type = "private_message" }

NextReceive ==
    \E s \in Sessions :
        \/ ConnectHistory(s)
        \/ /\ ~ConnectRunning
           /\ \/ Connect(s, Member(s), "general")
              \/ /\ s = "s2"
                 /\ \E p \in ReceivePayloads : ReceiveUpTo(s, p, ReceiveRun)
              \/ Deliver(s)

SpecReceive == Init /\ [][NextReceive]_vars

(***************************************************************************)
(* Tabs: alice opens the room in two browser tabs and a third connection,  *)
(* to the room or to a slug that does not exist; one tab sends her a       *)
(* private message.                                                        *)
(***************************************************************************)
Tabs == Sessions \cup {"s3"}

TabSlugs(s) == IF s = "s3" THEN Slugs ELSE {"general"}

TabsPayload == [ parsed |-> TRUE, type |-> "private_message",
                 message |-> << "h", "i" >>, username |-> "alice",
                 to_username |-> "alice" ]

InitTabs ==
    /\ connected_users = EmptyDict
    /\ user_channels = EmptyDict
    /\ message_buffer = EmptyDict
    /\ db_messages = <<>>
    /\ db_private = <<>>
    /\ groups = [ g \in GroupNames |-> {} ]
    /\ queue = [ s \in Tabs |-> <<>> ]
    /\ sent = [ s \in Tabs |-> <<>> ]
    /\ st = [ s \in Tabs |-> "Connecting" ]
    /\ user = [ s \in Tabs |-> Unset ]
    /\ room_slug = [ s \in Tabs |-> Unset ]
    /\ room_group_name = [ s \in Tabs |-> Unset ]
    /\ pc = [ s \in Tabs |-> "idle" ]
    /\ saved = [ s \in Tabs |-> NoMessage ]
    /\ now = 1
    /\ nrecv = 0
    /\ hm = HmIdle

TabConnectRunning == \E o \in Tabs : pc[o] = "history"

NextTabs ==
    \E s \in Tabs :
        \/ ConnectHistory(s)
        \/ /\ ~TabConnectRunning
           /\ \/ \E slug \in TabSlugs(s) : Connect(s, "alice", slug)
              \/ Disconnect(s)
              \/ /\ s = "s1"
                 /\ ReceiveUpTo(s, TabsPayload, TabsRun)
              \/ Deliver(s)

SpecTabs == InitTabs /\ [][NextTabs]_vars

(***************************************************************************)
(* Chat runs under the scheduling of the event loop: a consumer whose      *)
(* channel holds a message gets to run its handler, and a handler that     *)
(* awaits the store gets to resume; a client is free never to send and     *)
(* never to disconnect.  Handlers of other sessions run while a connect    *)
(* reads the store for its histories.                                      *)
(***************************************************************************)
NextChat ==
    \E s \in Sessions :
        \/ Connect(s, Member(s), "general")
        \/ ConnectHistory(s)
        \/ Disconnect(s)
        \/ \E p \in ChatPayloads : Receive(s, p)
        \/ ChatAfterSave(s)
        \/ Deliver(s)

\* a ConnectHistory(s) step, told without computing the histories: no other
\* action takes pc[s] from history to idle, and this one is enabled exactly
\* when ConnectHistory(s) is; the frames sent are left open
HistoriesSent(s) ==
    /\ pc[s] = "history"
    /\ pc' = [ pc EXCEPT ![s] = "idle" ]
    /\ sent' = sent \/ sent' # sent
    /\ UNCHANGED << sharedVars, storeVars, groups, queue, sessionVars, saved,
                    now, nrecv, hm >>

Fairness ==
    \A s \in Sessions :
        /\ WF_vars(HistoriesSent(s))
        /\ WF_vars(ChatAfterSave(s))
        /\ WF_vars(Deliver(s))

SpecChat == Init /\ [][NextChat]_vars /\ Fairness

(***************************************************************************)
(* Properties.                                                             *)
(***************************************************************************)
JoinedIn(slug) == { s \in Sessions : st[s] = "Joined" /\ room_slug[s] = slug }

RegistrySet(slug) ==
    IF slug \in DOMAIN connected_users THEN connected_users[slug] ELSE {}

\* C1: a connect by an anonymous identity, and the disconnect that follows its
\* close, leave connected_users and user_channels as they were, add the
\* connection to no group, queue no event on any channel and send no frame;
\* the connection is closed by connect and never Joined.
C1_AnonymousConnectChangesNothing ==
    [][ \A s \in Sessions :
          (user'[s] = Anonymous /\ st'[s] # st[s]) =>
             /\ st'[s] \in { "Rejected", "Closed" }
             /\ st[s] = "Connecting" => st'[s] = "Rejected"
             /\ UNCHANGED << connected_users, user_channels, groups, queue, sent >>
      ]_vars

\* C1 witness: an anonymous connection was closed while another one is Joined
C1_Witness ==
    \E s, o \in Sessions :
        /\ user[s] = Anonymous /\ st[s] = "Closed"
        /\ st[o] = "Joined" /\ user[o] \in DOMAIN user_channels

\* C2: the disconnect of a session whose connect was rejected changes neither
\* connected_users nor user_channels and queues no event on any channel.
C2_DisconnectNoopIfNeverJoined ==
    [][ \A s \in Sessions :
          (st[s] = "Rejected" /\ st'[s] = "Closed") =>
             UNCHANGED << connected_users, user_channels, queue >>
      ]_vars

\* C3: for every room, the registry's set is the set of identities that hold
\* at least one Joined session in that room.
C3_RegistryIsJoinedIdentities ==
    \A slug \in Slugs : RegistrySet(slug) = { user[s] : s \in JoinedIn(slug) }

OnlineUsersEvents ==
    { e \in UNION { { queue[s][i] : i \in 1..Len(queue[s]) } \cup
                    { sent[s][i] : i \in 1..Len(sent[s]) } : s \in Sessions } :
        e.type = "online_users" }

\* C4: no registry entry holds an empty member set (a room without members
\* has no entry, every entry counts at least one member), and every
\* online_users snapshot carries a count equal to the size of its member set.
C4_NoEmptyRegistryEntry ==
    /\ \A slug \in DOMAIN connected_users :
          Cardinality(connected_users[slug]) >= 1
    /\ \A e \in OnlineUsersEvents :
          e.count = Cardinality(e.users) /\ e.count >= 1

\* C4 witness: the last member of a room has left and its entry is gone
C4_Witness ==
    /\ connected_users = EmptyDict
    /\ \E s \in Sessions :
          st[s] = "Closed" /\ user[s] \in Users /\ room_slug[s] \in Rooms

\* C6: every entry of every room's buffer carries the id of a Message row
\* that was persisted for that room, with that row's content and author.
C6_BufferEntriesPersisted ==
    \A slug \in DOMAIN message_buffer :
      \A i \in 1..Len(message_buffer[slug]) :
        \E j \in 1..Len(db_messages) :
          /\ db_messages[j].id = message_buffer[slug][i].id
          /\ db_messages[j].room = slug
          /\ db_messages[j].content = message_buffer[slug][i].message
          /\ db_messages[j].user = message_buffer[slug][i].username

\* C6 witness: a saved message was appended to its room's buffer
C6_Witness ==
    \E slug \in DOMAIN message_buffer :
        /\ Len(message_buffer[slug]) >= 1
        /\ Len(db_messages) >= 1

AllEvents ==
    UNION { { queue[s][i] : i \in 1..Len(queue[s]) } \cup
            { sent[s][i] : i \in 1..Len(sent[s]) } : s \in Sessions }

\* rows addressed to username that were never handed to a channel
NotDeliveredLive(username) ==
    { db_private[i] : i \in { j \in 1..Len(db_private) :
        /\ db_private[j].to_user = username
        /\ ~\E e \in AllEvents : e.type = "private_message"
                                 /\ e.message_id = db_private[j].id } }

PrivateHistoryOf(frames) ==
    { f \in { frames[i] : i \in 1..Len(frames) } : f.type = "private_history" }

HistoryHas(frame, id, direction) ==
    \E i \in 1..Len(frame.messages) :
        frame.messages[i].id = id /\ frame.messages[i].direction = direction

\* a private message was persisted for a user without directory entry
PersistedForAbsent ==
    /\ Len(db_private') = Len(db_private) + 1
    /\ db_private'[Len(db_private')].to_user \notin DOMAIN user_channels

\* the sender, and nobody else, got private_message_sent; nothing was queued
ConfirmedToSenderOnly ==
    LET row == db_private'[Len(db_private')]
    IN  /\ queue' = queue
        /\ \E s \in Sessions :
             /\ \E f \in { sent'[s][i] : i \in 1..Len(sent'[s]) } :
                  /\ sent'[s] = Append(sent[s], f)
                  /\ f.type = "private_message_sent"
                  /\ f.message_id = row.id
                  /\ f.to_username = row.to_user
             /\ \A o \in Sessions \ {s} : sent'[o] = sent[o]

\* the connect of s sends its histories in this step
JoinsNow(s) == pc[s] = "history" /\ pc'[s] = "idle"

\* C10: a private message persisted for a user without directory
\* entry is confirmed to the sender and delivered live to nobody, and when
\* that user next connects its private history lists it as received.
C10_OfflinePrivateListedReceived ==
    [][ /\ PersistedForAbsent => ConfirmedToSenderOnly
        /\ \A s \in Sessions : JoinsNow(s) =>
             \A row \in NotDeliveredLive(user'[s]) :
               \E f \in PrivateHistoryOf(sent'[s]) :
                 HistoryHas(f, row.id, "received")
      ]_vars

\* What holds of the code in the case of C10: the direction is received when
\* the row's from-user is another user, and sent when it is the user itself.
OfflinePrivateListedByAuthor ==
    [][ /\ PersistedForAbsent => ConfirmedToSenderOnly
        /\ \A s \in Sessions : JoinsNow(s) =>
             \A row \in NotDeliveredLive(user'[s]) :
               \E f \in PrivateHistoryOf(sent'[s]) :
                 HistoryHas(f, row.id,
                     IF row.from_user = user'[s] THEN "sent" ELSE "received")
      ]_vars

\* a user joined after a message of another user had been persisted for it
\* without live delivery, and its history lists it as received
OfflinePrivateListedCase ==
    \E s \in Sessions :
        /\ st[s] = "Joined"
        /\ \E row \in NotDeliveredLive(user[s]) :
             /\ row.from_user # user[s]
             /\ \E f \in PrivateHistoryOf(sent[s]) :
                  HistoryHas(f, row.id, "received")

IdsOf(seq) == { seq[i].id : i \in 1..Len(seq) }

Missing(x) == x.date_added = NoneTs \/ x.date_added = EmptyStr

\* C7: each message id occurs at most once in the merged history, also when
\* the buffer snapshot and the store page both hold it.
C7_MergedIdsDistinct ==
    hm.done =>
      \A i, j \in 1..Len(hm.result) :
         i # j => hm.result[i].id # hm.result[j].id

\* C7 witness: an id held by the buffer and by the store page was merged
C7_Witness ==
    /\ hm.done
    /\ \E id \in IdsOf(hm.buffer) \cap IdsOf(hm.page) : id \in IdsOf(hm.result)
    /\ Len(hm.buffer) + Len(hm.page) > Len(hm.result)

\* C8: the merged history is ordered oldest to newest by timestamp, entries
\* without timestamp first, and is not longer than the requested limit.
C8_MergedSortedAndCapped ==
    hm.done =>
      /\ Len(hm.result) <= hm.limit
      /\ \A i, j \in 1..Len(hm.result) :
           i < j =>
             /\ Missing(hm.result[j]) => Missing(hm.result[i])
             /\ (~Missing(hm.result[i]) /\ ~Missing(hm.result[j])) =>
                  hm.result[i].date_added <= hm.result[j].date_added

\* C8 witness: more entries than the limit were combined and cut, the result
\* starts with an entry without timestamp, and a buffer entry (taken first
\* when combining) was sorted to the end
C8_Witness ==
    /\ hm.done
    /\ Cardinality(IdsOf(hm.buffer) \cup IdsOf(hm.page)) > hm.limit
    /\ Len(hm.result) = hm.limit
    /\ Len(hm.result) >= 2
    /\ Missing(hm.result[1]) /\ ~Missing(hm.result[2])
    /\ hm.result[Len(hm.result)].id \in IdsOf(hm.buffer)

\* appends made to the buffers so far: rows saved and handed on
Appended == Len(db_messages) - Cardinality({ s \in Sessions : pc[s] = "saved" })

\* C5: no room's buffer holds more than 50 entries; an append adds the new
\* entry at the end and, when the buffer was full, drops exactly the entry at
\* the front; after 51 appends the first entry is gone and the 51st is there.
C5_BufferCappedFifo ==
    /\ [](\A slug \in DOMAIN message_buffer :
             /\ Len(message_buffer[slug]) <= BufferCap
             /\ Appended >= BufferCap + 1 =>
                  /\ \A i \in 1..Len(message_buffer[slug]) :
                        message_buffer[slug][i].id # 1
                  /\ Len(message_buffer[slug]) = BufferCap)
    /\ [][ \A slug \in DOMAIN message_buffer' :
             LET old == BufferOf(message_buffer, slug)
                 new == message_buffer'[slug]
             IN  new # old =>
                   /\ \E s \in Sessions :
                        /\ pc[s] = "saved" /\ pc'[s] = "idle"
                        /\ new[Len(new)] = BufferEntry(saved[s], now)
                   /\ SubSeq(new, 1, Len(new) - 1) =
                        IF Len(old) < BufferCap THEN old ELSE Tail(old)
         ]_vars

\* C5 witness: the 51st append has dropped the first entry
C5_Witness ==
    /\ Appended = BufferCap + 1
    /\ Len(BufferOf(message_buffer, "general")) = BufferCap
    /\ BufferOf(message_buffer, "general")[1].id = 2
    /\ \E i \in 1..BufferCap :
          BufferOf(message_buffer, "general")[i].id = BufferCap + 1

\* a chat_message event for message id waits on the channel of session m
Enqueued(m, id) ==
    \E i \in 1..Len(queue[m]) :
        queue[m][i].type = "chat_message" /\ queue[m][i].message_id = id

\* session m was sent the new_message frame of the recorded message id
Received(m, id) ==
    /\ id \in 1..Len(db_messages)
    /\ \E i \in 1..Len(sent[m]) :
          /\ sent[m][i].type = "new_message"
          /\ sent[m][i].message_id = id
          /\ sent[m][i].message = db_messages[id].content

\* a chat submission records exactly one row: new id, the session's room, the
\* declared sender, who exists, and the stripped non-empty content
RecordsOneRow ==
    db_messages' # db_messages =>
        \E s \in Sessions :
            /\ st[s] = "Joined" /\ pc[s] = "idle" /\ pc'[s] = "saved"
            /\ db_messages' = Append(db_messages, saved'[s])
            /\ \A i \in 1..Len(db_messages) : db_messages[i].id # saved'[s].id
            /\ saved'[s].room = room_slug[s]
            /\ saved'[s].content # << >>
            /\ check_user_exists(saved'[s].user)

\* the broadcast of a recorded row queues one event carrying its content and
\* id on the channel of every member of the group, the sender's included
BroadcastsToGroup ==
    \A s \in Sessions :
        (pc[s] = "saved" /\ pc'[s] = "idle") =>
            /\ s \in groups[room_group_name[s]]
            /\ \A m \in groups[room_group_name[s]] :
                  /\ Len(queue'[m]) = Len(queue[m]) + 1
                  /\ SubSeq(queue'[m], 1, Len(queue[m])) = queue[m]
                  /\ queue'[m][Len(queue'[m])].type = "chat_message"
                  /\ queue'[m][Len(queue'[m])].message = saved[s].content
                  /\ queue'[m][Len(queue'[m])].message_id = saved[s].id

\* C9, as stated: every session that was a member of the group when the
\* event was broadcast is eventually sent the new_message frame.
C9_DeliveredToEveryMember ==
    \A m \in Sessions : \A id \in 1..MaxReceive :
        Enqueued(m, id) ~> Received(m, id)

\* C9, amended: a successful chat submission records exactly one row, its
\* broadcast reaches the channel of every member of the group at that time,
\* the sender's included, and every such member that does not disconnect
\* first is eventually sent the new_message frame with that content and id.
C9_DeliveredUnlessDisconnected ==
    /\ [][ RecordsOneRow /\ BroadcastsToGroup ]_vars
    /\ \A s \in Sessions : (pc[s] = "saved") ~> (pc[s] = "idle")
    /\ \A m \in Sessions : \A id \in 1..MaxReceive :
          Enqueued(m, id) ~> (Received(m, id) \/ st[m] = "Closed")

\* C9 witness: both members of the room, the sender included, were sent the
\* new_message frame of the one recorded row
C9_Witness ==
    /\ Len(db_messages) = 1
    /\ \A m \in Sessions : st[m] = "Joined" /\ Received(m, 1)

\* the step in which the connect of s is accepted and broadcasts
Accepted(s) == st[s] = "Connecting" /\ st'[s] = "Joined"

\* frames of the given type among frames
OfType(frames, type) == { i \in 1..Len(frames) : frames[i].type = type }

\* the accepted connect queues, on the channel of every member of the group
\* and on no other, the snapshot holding the joiner and then user_joined,
\* and has sent no frame yet
BroadcastsJoin(s) ==
    LET group == room_group_name'[s]
    IN  /\ s \in groups'[group]
        /\ \A m \in groups'[group] :
              /\ Len(queue'[m]) = Len(queue[m]) + 2
              /\ SubSeq(queue'[m], 1, Len(queue[m])) = queue[m]
              /\ queue'[m][Len(queue[m]) + 1].type = "online_users"
              /\ user'[s] \in queue'[m][Len(queue[m]) + 1].users
              /\ queue'[m][Len(queue[m]) + 2].type = "user_joined"
              /\ queue'[m][Len(queue[m]) + 2].username = user'[s]
        /\ \A m \in Sessions \ groups'[group] : queue'[m] = queue[m]
        /\ sent' = sent
        /\ pc'[s] = "history"

\* the connect then sends its own connection the room history and then the
\* private history, and nothing to any other connection or channel
SendsHistories(s) ==
    /\ Len(sent'[s]) = Len(sent[s]) + 2
    /\ SubSeq(sent'[s], 1, Len(sent[s])) = sent[s]
    /\ sent'[s][Len(sent[s]) + 1].type = "history"
    /\ sent'[s][Len(sent[s]) + 2].type = "private_history"
    /\ \A o \in Sessions \ {s} : sent'[o] = sent[o]
    /\ queue' = queue

\* C11: an accepted connect broadcasts to the room the online_users snapshot
\* that holds the joining identity, then user_joined, then sends the room
\* history, then the private history; history and private_history go to the
\* joining connection only: no other step sends one and no channel carries one.
C11_ConnectEmitsInOrder ==
    [][ /\ \A s \in Sessions : Accepted(s) => BroadcastsJoin(s)
        /\ \A s \in Sessions : JoinsNow(s) => SendsHistories(s)
        /\ \A s \in Sessions :
              /\ (\E type \in { "history", "private_history" } :
                     OfType(sent'[s], type) # OfType(sent[s], type))
                   => JoinsNow(s)
              /\ \A type \in { "history", "private_history" } :
                     OfType(queue'[s], type) = {}
      ]_vars

\* C11 witness: a second user joined a room: the member before it was sent
\* the snapshot holding the joiner and then user_joined, the joiner was sent
\* its two histories, and the member was sent no history but its own
C11_Witness ==
    \E s, o \in Sessions :
        /\ s # o /\ user[s] # user[o]
        /\ st[s] = "Joined" /\ st[o] = "Joined"
        /\ pc[s] = "idle"
        /\ Len(sent[s]) >= 2
        /\ sent[s][1].type = "history" /\ sent[s][2].type = "private_history"
        /\ Cardinality(OfType(sent[o], "history")) = 1
        /\ \E i \in 1..(Len(sent[o]) - 1) :
              /\ sent[o][i].type = "online_users"
              /\ sent[o][i].users = { user[s], user[o] }
              /\ sent[o][i + 1].type = "user_activity"
              /\ sent[o][i + 1].activity = "joined"
              /\ sent[o][i + 1].username = user[s]

\* What the joining connection itself is sent first: its consumer handles the
\* group messages of its own connect only after connect has returned, so the
\* room history is the first frame of every connection.
HistoryIsFirstFrame ==
    \A s \in Sessions : sent[s] # << >> => sent[s][1].type = "history"

\* the step in which the disconnect of a Joined session runs
Leaves(s) == st[s] = "Joined" /\ st'[s] = "Closed"

\* C12: when the disconnect of a Joined session has run, its identity is not
\* in the registry set of its room, has no directory entry, and its channel
\* is in no group; from then on no message is queued on that channel and no
\* frame is sent to that connection.
C12_DisconnectUnregisters ==
    /\ [](\A s \in Sessions : st[s] = "Closed" =>
              \A g \in GroupNames : s \notin groups[g])
    /\ [][ \A s \in Sessions :
             /\ Leaves(s) =>
                  /\ user[s] \notin (IF room_slug[s] \in DOMAIN connected_users'
                                     THEN connected_users'[room_slug[s]] ELSE {})
                  /\ user[s] \notin DOMAIN user_channels'
                  /\ s \notin groups'[room_group_name[s]]
             /\ st[s] = "Closed" => queue'[s] = queue[s] /\ sent'[s] = sent[s]
         ]_vars

\* C12 witness: a member left, and a chat message broadcast afterwards went
\* to the member that stayed and not to the one that left
C12_Witness ==
    \E s, o \in Sessions :
        /\ st[s] = "Closed" /\ sent[s] # << >>
        /\ st[o] = "Joined"
        /\ \E i \in 1..Len(sent[o]) :
              /\ sent[o][i].type = "new_message"
              /\ \E j \in 1..(i - 1) :
                    /\ sent[o][j].type = "user_activity"
                    /\ sent[o][j].activity = "left"
                    /\ sent[o][j].username = user[s]
        /\ \A i \in 1..Len(queue[s]) : queue[s][i].type # "chat_message"
        /\ \A i \in 1..Len(sent[s]) : sent[s][i].type # "new_message"

\* C13: the disconnect of a Joined session queues, on the channel of every
\* member of the group, an online_users snapshot and then user_left for the
\* leaving identity, also when that identity was the last one in the room's
\* registry set.
C13_LeaveBroadcastsSnapshotThenLeft ==
    [][ \A s \in Sessions :
          Leaves(s) =>
            \A m \in groups[room_group_name[s]] :
               /\ Len(queue'[m]) = Len(queue[m]) + 2
               /\ SubSeq(queue'[m], 1, Len(queue[m])) = queue[m]
               /\ queue'[m][Len(queue[m]) + 1].type = "online_users"
               /\ queue'[m][Len(queue[m]) + 2].type = "user_left"
               /\ queue'[m][Len(queue[m]) + 2].username = user[s]
      ]_vars

\* What holds of the code in the case of C13: user_left is always queued, and
\* the snapshot before it only when the room still has a registry entry.
LeaveBroadcastsSnapshotIfTracked ==
    [][ \A s \in Sessions :
          Leaves(s) =>
            \A m \in groups[room_group_name[s]] :
               LET k == IF room_slug[s] \in DOMAIN connected_users'
                        THEN 2 ELSE 1
               IN  /\ Len(queue'[m]) = Len(queue[m]) + k
                   /\ SubSeq(queue'[m], 1, Len(queue[m])) = queue[m]
                   /\ k = 2 =>
                        /\ queue'[m][Len(queue[m]) + 1].type = "online_users"
                        /\ queue'[m][Len(queue[m]) + 1].users =
                              connected_users'[room_slug[s]]
                   /\ queue'[m][Len(queue[m]) + k].type = "user_left"
                   /\ queue'[m][Len(queue[m]) + k].username = user[s]
      ]_vars

\* frames of the given type that frames holds
Count(frames, type) == Cardinality(OfType(frames, type))

\* everything but the frames sent to s and the count of receive() calls
\* is as it was, and s can take its next message
OnlySentTo(s) ==
    /\ \A o \in Sessions \ {s} : sent'[o] = sent[o]
    /\ UNCHANGED << sharedVars, storeVars, groups, queue, sessionVars, pc,
                    saved >>
    /\ st[s] = "Joined" /\ pc[s] = "idle"

\* C14: a chat message with text whose declared sender does not exist gets
\* one error frame, sent to the submitting connection only; no row is
\* stored, the buffer is unchanged, nothing is queued on any channel, and
\* the session stays Joined.
C14_UnknownSenderGetsOneError ==
    [][ \A s \in Sessions : \A p \in ChatPayloads :
          ( /\ Receive(s, p)
            /\ Strip(p.message) # << >>
            /\ ~check_user_exists(p.username) ) =>
               /\ sent'[s] = Append(sent[s], ErrorFrame("user not found"))
               /\ OnlySentTo(s)
      ]_vars

\* C14 witness: one connection was sent the error, the other member nothing
\* of the kind, and no row was stored
C14_Witness ==
    \E s, o \in Sessions :
        /\ s # o /\ st[s] = "Joined" /\ st[o] = "Joined"
        /\ Count(sent[s], "error") = 1
        /\ Count(sent[o], "error") = 0
        /\ \A i \in 1..Len(queue[o]) : queue[o][i].type # "chat_message"
        /\ db_messages = << >>
        /\ message_buffer = EmptyDict
        /\ nrecv = 1

\* C15: when the save of a chat message fails, no frame is sent to the
\* sender or anybody else, nothing is queued on any channel, the buffer is
\* unchanged, and the session stays Joined.
C15_FailedSaveIsSilent ==
    [][ \A s \in Sessions :
          ( /\ ReceiveUpTo(s, BufferPayload, BufferRun)
            /\ db_messages' = db_messages ) =>
               /\ sent'[s] = sent[s]
               /\ OnlySentTo(s)
      ]_vars

\* C15 witness: a chat message with text and an existing sender was handled
\* and no row was stored
C15_Witness ==
    /\ nrecv = 1
    /\ db_messages = PrefillRows
    /\ \A s \in Sessions : st[s] = "Joined" /\ pc[s] = "idle"
    /\ \A s \in Sessions : Count(sent[s], "error") = 0
    /\ \A s \in Sessions : Len(queue[s]) + Len(sent[s]) >= 2

\* C16: when the save of a private message fails the sender gets an error
\* frame, no private_message_sent, and nothing is queued for the recipient;
\* when the sender or the recipient username does not exist the sender gets
\* an error frame and nothing is stored or queued.
C16_PrivateFailureGetsError ==
    [][ \A s \in Sessions : \A p \in AddressedPayloads :
          ReceiveUpTo(s, p, ReceiveRun) =>
             /\ ( ~check_user_exists(p.username)
                  \/ ~check_user_exists(p.to_username) ) =>
                    /\ sent'[s] = Append(sent[s], ErrorFrame("user not found"))
                    /\ OnlySentTo(s)
             /\ ( /\ check_user_exists(p.username)
                  /\ check_user_exists(p.to_username)
                  /\ db_private' = db_private ) =>
                    /\ sent'[s] = Append(sent[s], ErrorFrame("failed to send"))
                    /\ OnlySentTo(s)
      ]_vars

\* the frames of the given type sent to s carry this text
HasError(s, text) ==
    \E i \in 1..Len(sent[s]) : sent[s][i] = ErrorFrame(text)

\* C16 witness: the sender was sent both errors, nothing was stored, and the
\* recipient's connection got nothing
C16_Witness ==
    /\ HasError("s2", "failed to send")
    /\ HasError("s2", "user not found")
    /\ Count(sent["s2"], "private_message_sent") = 0
    /\ db_private = << >>
    /\ st["s1"] = "Joined"
    /\ Count(sent["s1"], "private_message") = 0
    /\ Count(queue["s1"], "private_message") = 0

\* C17: a payload that does not parse, a chat message whose text is empty
\* after trimming, and a private message with empty text or empty target
\* change nothing: no row is stored, buffer, registry and directory are as
\* they were, no frame is sent and no message queued, and the session stays
\* Joined, ready for its next payload.
C17_SilentPayloadChangesNothing ==
    [][ \A s \in Sessions :
          ( \E p \in SilentPayloads : ReceiveUpTo(s, p, ReceiveRun) ) =>
             /\ sent'[s] = sent[s]
             /\ OnlySentTo(s)
             /\ UNCHANGED now
      ]_vars

\* C17 witness: of two payloads one left no trace, and the other, a private
\* message, was handled
C17_Witness ==
    /\ nrecv = 2
    /\ Len(db_private) = 1
    /\ Count(sent["s2"], "private_message_sent") = 1
    /\ Count(sent["s2"], "error") = 0
    /\ st["s2"] = "Joined"

\* the Joined connections of user u
TabsOf(u) == { t \in Tabs : st[t] = "Joined" /\ user[t] = u }

\* C18: the directory is last-connected-wins. An accepted connect makes its
\* channel the user's entry; while the user has two (or more) Joined
\* sessions and none of the user's sessions joins or leaves, the entry
\* exists and stays the same; and a private message stored for a user with
\* two Joined sessions is queued exactly once, on the entry's channel, and
\* on no other.
C18_LastConnectedWins ==
    [][ \A u \in Users :
          /\ \A s \in Tabs :
               ( Accepted(s) /\ user'[s] = u ) =>
                   /\ u \in DOMAIN user_channels'
                   /\ user_channels'[u] = s
          /\ ( Cardinality(TabsOf(u)) >= 2 /\ TabsOf(u)' = TabsOf(u) ) =>
                   /\ u \in DOMAIN user_channels
                   /\ u \in DOMAIN user_channels'
                   /\ user_channels'[u] = user_channels[u]
          /\ ( /\ u = TabsPayload.to_username
               /\ Cardinality(TabsOf(u)) >= 2
               /\ \E s \in Tabs : ReceiveUpTo(s, TabsPayload, TabsRun)
               /\ db_private' # db_private ) =>
                   /\ u \in DOMAIN user_channels
                   /\ \A c \in Tabs :
                        Len(queue'[c]) = Len(queue[c])
                           + (IF c = user_channels[u] THEN 1 ELSE 0)
      ]_vars

\* C19: whenever a user has a Joined session the directory has an entry for
\* the user, and the entry is the channel of a Joined session of that user
\* (so that a private message stored for the user is sent to a live
\* channel), also after another session of the user has disconnected.
C19_JoinedUserIsRoutable ==
    \A s \in Sessions :
        st[s] = "Joined" =>
            /\ user[s] \in DOMAIN user_channels
            /\ st[user_channels[user[s]]] = "Joined"
            /\ user[user_channels[user[s]]] = user[s]

\* row x was stored after row y and carries a later date
Newer(x, y) ==
    /\ x.id > y.id
    /\ ~Missing(x) /\ ~Missing(y)
    /\ x.date_added > y.date_added

\* C20: the history holds min(limit, n) of the n rows stored for the room,
\* and no stored row that is left out is newer than a row that is included.
C20_HistoryHoldsMostRecent ==
    hm.done =>
      /\ IdsOf(hm.result) \subseteq IdsOf(hm.store)
      /\ Len(hm.result) = (IF hm.limit < Len(hm.store) THEN hm.limit
                           ELSE Len(hm.store))
      /\ \A i, j \in 1..Len(hm.store) :
            ( hm.store[i].id \notin IdsOf(hm.result)
              /\ hm.store[j].id \in IdsOf(hm.result) ) =>
                 ~Newer(hm.store[i], hm.store[j])

\* C21: under every interleaving of sessions sending chat messages to one
\* room, the entries of the room's buffer are in strictly increasing order
\* of the message id the store assigned.
C21_BufferOrderedById ==
    \A slug \in DOMAIN message_buffer :
        \A i \in 1..(Len(message_buffer[slug]) - 1) :
            message_buffer[slug][i].id < message_buffer[slug][i + 1].id

\* C22: every ChatMessage and every PrivateMessage stored as a result of a
\* payload a Joined session received has that session's authenticated user
\* as its author, and so has the chat message the session then broadcasts.
C22_AuthorIsSessionUser ==
    [][ \A s \in Sessions :
          /\ ( (\E p \in Payloads : Receive(s, p)) /\ db_messages' # db_messages ) =>
                db_messages'[Len(db_messages')].user = user[s]
          /\ ( (\E p \in Payloads : Receive(s, p)) /\ db_private' # db_private ) =>
                db_private'[Len(db_private')].from_user = user[s]
          /\ ChatAfterSave(s) =>
                \A m \in Sessions :
                   \A i \in (Len(queue[m]) + 1)..Len(queue'[m]) :
                      queue'[m][i].username = user[s]
      ]_vars

====
